---- MODULE Spec2Model ----
(***************************************************************************)
(* Model of memorier.py: the Memorier pipeline over a source tree.         *)
(* validateFiles -> collectFiles -> removeLargeFiles -> convertTypes ->    *)
(* checkQuality -> removeDuplicateImages (getImageHashes) ->               *)
(* createFolders -> organizeMemories.                                      *)
(* The file system and the external tools (PIL, ffprobe, ffmpeg,           *)
(* imagehash) are the environment: every call's outcome is chosen among    *)
(* the outcomes the call can have.                                         *)
(***************************************************************************)
EXTENDS Integers, Sequences, FiniteSets, TLC

\* ------------------------------------------------------------ bounds
MaxFiles == 3
MaxDangling == 1
MaxCorrupt == 1

\* ------------------------------------------------------------ paths
P(d, s, e) == [dir |-> d, stem |-> s, ext |-> e]

\* The candidate files of a source tree (two sub-directories x and y).
Universe ==
    { P("x", "a", ".png"), P("x", "a", ".webp"), P("x", "a", ".heic"),
      P("y", "a", ".png"),
      P("x", "a", ".avi"), P("x", "a", ".mp4"),
      P("x", "n", ".txt") }

\* Content that is no record's original content (a partial or failed write).
Junk == P("", "", "")

image_exts == {".jpg", ".jpeg", ".png", ".heic", ".webp"}
video_exts == {".mp4", ".avi", ".mkv", ".mov", ".webm"}
valid_exts == image_exts \cup video_exts

\* os.path.splitext(path)[1].lower()
Ext(p) == p.ext
\* os.path.splitext(path)[0] + e
WithExt(p, e) == [p EXCEPT !.ext = e]

\* ------------------------------------------------------------ sequences
Range(s) == {s[k] : k \in 1..Len(s)}

\* a removal by position that takes the last element: list.pop()
RemoveFirst_Pop(s, x) == SubSeq(s, 1, Len(s) - 1)

\* list.remove(x): drops the first occurrence of x
RECURSIVE RemoveFirst(_, _)
RemoveFirst(s, x) ==
    IF s = << >> THEN << >>
    ELSE IF Head(s) = x THEN Tail(s)
    ELSE << Head(s) >> \o RemoveFirst(Tail(s), x)

\* [p for p in s if p not in D]
RECURSIVE Without(_, _)
Without(s, D) ==
    IF s = << >> THEN << >>
    ELSE IF Head(s) \in D THEN Without(Tail(s), D)
    ELSE << Head(s) >> \o Without(Tail(s), D)

\* The orders in which os.walk can list the files S: every order in which
\* the files of one directory are contiguous.
WalkOrders(S) ==
    { s \in [1..Cardinality(S) -> S] :
        /\ \A a, b \in 1..Cardinality(S) : a # b => s[a] # s[b]
        /\ \A a, b, c \in 1..Cardinality(S) :
              (a < b /\ b < c /\ s[a].dir = s[c].dir) => s[b].dir = s[a].dir }

\* ------------------------------------------------------------ disk
\* disk maps every directory entry to [kind, content]: kind "file" is a
\* regular file, kind "dangling" a symbolic link whose target is missing
\* (os.walk lists it among the files; os.path.exists and isfile are False);
\* content names the original file the bytes derive from.
FileEntry(c) == [kind |-> "file", content |-> c]
DanglingEntry == [kind |-> "dangling", content |-> Junk]

\* os.path.exists(p) (== os.path.isfile(p) for the entries of the model)
Exists(d, p) == p \in DOMAIN d /\ d[p].kind = "file"

\* disk after a successful os.remove(p)
Unlink(d, p) == [q \in DOMAIN d \ {p} |-> d[q]]
UnlinkAll(d, S) == [q \in DOMAIN d \ S |-> d[q]]
\* disk after p is written (created, or its bytes replaced) with content c
WriteFile(d, p, c) ==
    [q \in DOMAIN d \cup {p} |-> IF q # p THEN d[q] ELSE FileEntry(c)]

\* What os.remove(p) can do: TRUE, the entry is removed; FALSE, it raises
\* (PermissionError; FileNotFoundError when there is no such entry).
RemoveOutcomes(d, p) == IF p \in DOMAIN d THEN {TRUE, FALSE} ELSE {FALSE}

\* ------------------------------------------------------------ state
VARIABLES
    root,             \* what self.folder is: "dir", "missing" or "notdir"
    disk,             \* the source tree
    pillow_heif,      \* whether `import pillow_heif` succeeds
    pc,               \* the call the driver is in
    exc,              \* the uncaught exception that ended the run, or NoExc
    errors,           \* self.errors
    corrupted_files,  \* validateFiles: corrupted_files
    founded_paths,    \* self.founded_paths
    snapshot,         \* the copy self.founded_paths[:] a stage iterates over
    idx,              \* position of the running loop (1-based)
    size,             \* removeLargeFiles: size of the record last read
    result,           \* checkQuality: outcome of the last inspection
    dims,             \* checkQuality: (width, height) last read
    probed,           \* checkQuality: what the inspection of a file found
    removed_files,    \* removeLargeFiles / checkQuality: removed_files (paths)
    remove_failed,    \* removeLargeFiles: paths reported "Failed to remove large file"
    converted_paths,  \* convertTypes: converted_paths
    converted_count,  \* convertTypes: converted_count
    conv_log,         \* convertTypes: per record so far, its path and the branch taken
    hashes,           \* getImageHashes: hashes (path -> fingerprint)
    paths,            \* removeDuplicateImages: paths = list(hashes.keys())
    seen,             \* removeDuplicateImages: seen
    deleted,          \* removeDuplicateImages: deleted
    i,                \* removeDuplicateImages: outer index (1-based)
    j,                \* removeDuplicateImages: inner index, 0 outside the inner loop
    target_dirs,      \* directories under Memories/ that exist
    target_files,     \* files under Memories/ (target path -> content)
    file_dates,       \* self.file_dates
    moved_count       \* organizeMemories: moved_count

envVars == << root, pillow_heif >>
valVars == << errors, corrupted_files >>
sizeVars == << size, remove_failed >>
convVars == << converted_paths, converted_count, conv_log >>
dupVars == << hashes, paths, seen, deleted, i, j >>
orgVars == << target_dirs, target_files, file_dates, moved_count >>

vars == << root, disk, pillow_heif, pc, exc, errors, corrupted_files,
           founded_paths, snapshot, idx, size, result, dims, probed,
           removed_files, remove_failed, converted_paths, converted_count, conv_log, hashes, paths,
           seen, deleted, i, j, target_dirs, target_files, file_dates,
           moved_count >>

NoExc == [stage |-> "", op |-> ""]
Raised(stage, op) == [stage |-> stage, op |-> op]

\* size = None: os.path.getsize raised
None == -1
NoDims == << 0, 0 >>
Empty == [x \in {} |-> x]
\* a dict after d[key] = value
PutHash(d, key, value) ==
    [q \in DOMAIN d \cup {key} |-> IF q = key THEN value ELSE d[q]]

Init ==
    /\ root \in {"dir", "missing", "notdir"}
    /\ \E tree \in SUBSET Universe :
         \E dangling \in SUBSET tree :
            /\ Cardinality(tree) <= MaxFiles
            /\ Cardinality(dangling) <= MaxDangling
            /\ root # "dir" => tree = {}
            /\ disk = [p \in tree |->
                          IF p \in dangling THEN DanglingEntry ELSE FileEntry(p)]
            \* read only when a .heic record is converted
            /\ pillow_heif \in
                  IF \E p \in tree : Ext(p) = ".heic" THEN BOOLEAN ELSE {FALSE}
    /\ pc = "validateFiles"
    /\ exc = NoExc
    /\ errors = << >>
    /\ corrupted_files = {}
    /\ founded_paths = << >>
    /\ snapshot = << >>
    /\ idx = 1
    /\ size = None
    /\ result = ""
    /\ dims = NoDims
    /\ probed = Empty
    /\ removed_files = << >>
    /\ remove_failed = {}
    /\ converted_paths = << >>
    /\ converted_count = 0
    /\ conv_log = << >>
    /\ hashes = Empty
    /\ paths = << >>
    /\ seen = {}
    /\ deleted = {}
    /\ i = 1
    /\ j = 0
    /\ target_dirs = {}
    /\ target_files = Empty
    /\ file_dates = Empty
    /\ moved_count = 0

\* ------------------------------------------------------------ driver
\* The locals of a call (corrupted_files, removed_files, converted_paths,
\* hashes, ...) are still in the state at the moment the call returns, for
\* what it left to be read there; they are dropped when the next call returns.
\* The stage the module-level driver calls after `stage` has returned.
NextStage(stage) ==
    CASE stage = "validateFiles" -> "collectFiles"
      [] stage = "collectFiles" -> "removeLargeFiles"
      [] stage = "removeLargeFiles" -> "convertTypes"
      [] stage = "convertTypes" -> "checkQuality"
      [] stage = "checkQuality" -> "removeDuplicateImages"
      [] stage = "removeDuplicateImages" -> "createFolders"
      [] stage = "createFolders" -> "organizeMemories"
      [] stage = "organizeMemories" -> "done"

\* ------------------------------------------------------------ validateFiles
\* a walk that takes every file it lists
Eligible_All(d) == DOMAIN d

\* The files os.walk lists whose extension is an image or video extension.
Eligible(d) == {p \in DOMAIN d : Ext(p) \in valid_exts}

\* total_files == 0: the walk lists no file at all, whatever its extension.
NoFilesFound(d) == Cardinality(DOMAIN d) = 0

\* The error validateFiles appends when it returns False, "" when it goes on.
ValidateError(r, d) ==
    IF r = "missing" THEN "Folder does not exist"
    ELSE IF r = "notdir" THEN "Path is not a directory"
    ELSE IF NoFilesFound(d) THEN "No files found in the specified folder"
    ELSE ""

ValidateFiles ==
    /\ pc = "validateFiles"
    /\ IF ValidateError(root, disk) # ""
       THEN /\ errors' = Append(errors, ValidateError(root, disk))
            /\ pc' = "halted"
            /\ UNCHANGED << disk, corrupted_files >>
       ELSE \* bad: the regular files whose verify / ffprobe fails
            \E bad \in SUBSET {p \in Eligible(disk) : Exists(disk, p)} :
              \* os.remove only "if os.path.exists(bad_path)"; where it
              \* raises (denied) the error passes
              \E denied \in SUBSET bad :
                /\ Cardinality(bad) <= MaxCorrupt
                /\ corrupted_files' =
                      bad \cup {p \in Eligible(disk) : ~Exists(disk, p)}
                /\ disk' = UnlinkAll(disk, bad \ denied)
                /\ pc' = NextStage("validateFiles")
                /\ UNCHANGED errors
    /\ UNCHANGED << envVars, exc, founded_paths, snapshot, idx, size, result, dims, probed,
                    removed_files, remove_failed, convVars, dupVars, orgVars >>

\* ------------------------------------------------------------ collectFiles
CollectFiles ==
    /\ pc = "collectFiles"
    /\ \E order \in WalkOrders(Eligible(disk)) :
          /\ founded_paths' = founded_paths \o order
          /\ snapshot' = founded_paths \o order
    /\ idx' = 1
    /\ pc' = NextStage("collectFiles")
    /\ UNCHANGED << envVars, disk, exc, valVars, size, result, dims, probed,
                    removed_files, remove_failed, convVars, dupVars, orgVars >>

\* ------------------------------------------------------------ removeLargeFiles
max_image_bytes == 20 * 1024 * 1024
max_video_bytes == 1024 * 1024 * 1024

Sizes == {max_image_bytes, max_image_bytes + 1, max_video_bytes, max_video_bytes + 1}

\* What os.path.getsize(p) can give: it raises when the file is not there,
\* and can raise on a file that is (I/O error).
SizeOutcomes(d, p) == IF Exists(d, p) THEN Sizes \cup {None} ELSE {None}

\* reason, "" when should_remove stays False
LargeReason(ext, sz) ==
    IF sz = None THEN "unable to read size"
    ELSE IF ext \in image_exts /\ sz > max_image_bytes THEN "image too large"
    ELSE IF ext \in video_exts /\ sz > max_video_bytes THEN "video too large"
    ELSE ""

RemoveLargeStep ==
    /\ pc = "removeLargeFiles"
    /\ idx <= Len(snapshot)
    /\ LET file_path == snapshot[idx]
       IN \E sz \in SizeOutcomes(disk, file_path) :
           \E removed \in RemoveOutcomes(disk, file_path) :
            /\ size' = sz
            /\ IF LargeReason(Ext(file_path), sz) = ""
               THEN UNCHANGED << disk, removed_files, founded_paths, remove_failed >>
               ELSE IF removed
               THEN /\ disk' = Unlink(disk, file_path)
                    /\ removed_files' = Append(removed_files, file_path)
                    /\ founded_paths' = RemoveFirst(founded_paths, file_path)
                    /\ UNCHANGED remove_failed
               ELSE \* os.remove raised: the except branch only prints
                    /\ remove_failed' = remove_failed \cup {file_path}
                    /\ UNCHANGED << disk, removed_files, founded_paths >>
    /\ idx' = idx + 1
    \* the locals of validateFiles are gone once this call runs
    /\ corrupted_files' = {}
    /\ UNCHANGED << envVars, pc, exc, errors, snapshot, result, dims, probed,
                    convVars, dupVars, orgVars >>

RemoveLargeReturn ==
    /\ pc = "removeLargeFiles"
    /\ idx > Len(snapshot)
    /\ pc' = NextStage("removeLargeFiles")
    /\ idx' = 1
    /\ size' = None
    /\ corrupted_files' = {}
    /\ UNCHANGED << envVars, disk, exc, errors, founded_paths, snapshot, result,
                    dims, probed, removed_files, remove_failed, convVars, dupVars, orgVars >>

\* ------------------------------------------------------------ convertTypes
image_convertible == {".heic", ".webp"}
video_convertible == {".avi", ".mkv", ".mov", ".webm"}

\* new_path = os.path.splitext(file_path)[0] + '.png' / '.mp4'
ConvertTarget(file_path) ==
    IF Ext(file_path) \in image_convertible THEN WithExt(file_path, ".png")
    ELSE IF Ext(file_path) \in video_convertible THEN WithExt(file_path, ".mp4")
    ELSE file_path

\* The branch convertTypes can take for file_path:
\*   native        not a convertible extension
\*   nodecoder     .heic and pillow_heif cannot be imported
\*   open_failed   Image.open raised
\*   save_failed   img.save raised
\*   run_raised    subprocess.run raised something other than TimeoutExpired
\*   timeout       ffmpeg timed out (result = None)
\*   nonzero       ffmpeg returned a non-zero code
\*   remove_failed the new file was written, os.remove(file_path) raised
\*   converted     the new file was written and the original removed
ConvertOutcomes(d, heif, file_path) ==
    IF Ext(file_path) \in image_convertible
    THEN IF Ext(file_path) = ".heic" /\ ~heif THEN {"nodecoder"}
         ELSE IF ~Exists(d, file_path) THEN {"open_failed"}
         ELSE {"open_failed", "save_failed", "remove_failed", "converted"}
    ELSE IF Ext(file_path) \in video_convertible
    THEN {"run_raised", "timeout", "nonzero"} \cup
         (IF Exists(d, file_path) THEN {"remove_failed", "converted"} ELSE {})
    ELSE {"native"}

ConvertFailures ==
    {"nodecoder", "open_failed", "save_failed", "run_raised", "timeout", "nonzero",
     "remove_failed"}

\* The disks the branch can leave. A write that fails part-way leaves Junk
\* in the target it opened (PIL removes a target it created itself).
ConvertDisks(d, file_path, out) ==
    LET target == ConvertTarget(file_path)
    IN CASE out = "converted" ->
              {Unlink(WriteFile(d, target, d[file_path].content), file_path)}
         [] out = "remove_failed" ->
              {WriteFile(d, target, d[file_path].content)}
         [] out = "save_failed" ->
              IF target \in DOMAIN d THEN {d, WriteFile(d, target, Junk)} ELSE {d}
         [] out \in {"timeout", "nonzero"} ->
              IF Exists(d, file_path) THEN {d, WriteFile(d, target, Junk)} ELSE {d}
         [] OTHER -> {d}

\* convertTypes without `new_path = file_path` in its failure branches
FailedPath_NotReset(file_path, target) == target

\* new_path as the failure branches reset it (new_path = file_path)
FailedPath(file_path, target) == file_path

\* the path appended to converted_paths
NewPath(file_path, out) ==
    IF out = "converted" THEN ConvertTarget(file_path)
    ELSE FailedPath(file_path, ConvertTarget(file_path))

\* converted_count after the branch
Counted(count, out) == IF out = "converted" THEN count + 1 ELSE count

ConvertStep ==
    /\ pc = "convertTypes"
    /\ idx <= Len(founded_paths)
    /\ LET file_path == founded_paths[idx]
       IN \E out \in ConvertOutcomes(disk, pillow_heif, file_path) :
            /\ disk' \in ConvertDisks(disk, file_path, out)
            /\ converted_paths' = Append(converted_paths, NewPath(file_path, out))
            /\ converted_count' = Counted(converted_count, out)
            /\ conv_log' = Append(conv_log, [src |-> file_path, res |-> out])
    /\ idx' = idx + 1
    \* the locals of removeLargeFiles are gone once this call runs
    /\ removed_files' = << >>
    /\ remove_failed' = {}
    /\ UNCHANGED << envVars, pc, exc, valVars, founded_paths, snapshot, size, result,
                    dims, probed, dupVars, orgVars >>

ConvertReturn ==
    /\ pc = "convertTypes"
    /\ idx > Len(founded_paths)
    /\ founded_paths' = converted_paths
    /\ snapshot' = converted_paths
    /\ removed_files' = << >>
    /\ remove_failed' = {}
    /\ pc' = NextStage("convertTypes")
    /\ idx' = 1
    /\ UNCHANGED << envVars, disk, exc, valVars, size, result, dims, probed,
                    convVars, dupVars, orgVars >>

\* ------------------------------------------------------------ checkQuality
min_image_size == << 600, 400 >>
min_video_size == << 600, 400 >>

\* the (width, height) an inspection can report
Dimensions == {599, 600} \X {399, 400}

\* What inspecting file_path can give:
\*   open_raised  Image.open raised
\*   timeout      subprocess.run raised TimeoutExpired
\*   nonzero      ffprobe returned a non-zero code
\*   bad_json     json.loads raised on ffprobe's output
\*   no_stream    no stream of codec_type video
\*   sized        width and height were read
\* open_raised and timeout can happen on any call; the others are what the
\* file is, so a file inspected twice gives the same (pr remembers it).
Finding(out, wh) == [out |-> out, wh |-> wh]

Findings(ext) ==
    IF ext \in image_exts
    THEN {Finding("sized", wh) : wh \in Dimensions}
    ELSE {Finding("sized", wh) : wh \in Dimensions} \cup
         {Finding(o, NoDims) : o \in {"nonzero", "bad_json", "no_stream"}}

InspectOutcomes(d, pr, file_path) ==
    LET failing == IF Ext(file_path) \in image_exts
                   THEN {Finding("open_raised", NoDims)}
                   ELSE {Finding("timeout", NoDims)}
    IN IF ~Exists(d, file_path)
       THEN IF Ext(file_path) \in image_exts THEN failing
            ELSE failing \cup {Finding("nonzero", NoDims)}
       ELSE IF file_path \in DOMAIN pr THEN failing \cup {pr[file_path]}
       ELSE failing \cup Findings(Ext(file_path))

\* the call whose exception leaves checkQuality, "" when none does
InspectRaises(out) ==
    CASE out = "open_raised" -> "Image.open"
      [] out = "timeout" -> "subprocess.run"
      [] out = "bad_json" -> "json.loads"
      [] OTHER -> ""

TooSmall(wh, min) == wh[1] < min[1] \/ wh[2] < min[2]

\* should_remove
LowQuality(ext, out, wh) ==
    IF ext \in image_exts THEN out = "sized" /\ TooSmall(wh, min_image_size)
    ELSE IF ext \in video_exts
    THEN \/ out \in {"nonzero", "no_stream"}
         \/ out = "sized" /\ TooSmall(wh, min_video_size)
    ELSE FALSE

CheckQualityStep ==
    /\ pc = "checkQuality"
    /\ idx <= Len(snapshot)
    /\ LET file_path == snapshot[idx]
       IN \E found \in InspectOutcomes(disk, probed, file_path) :
         \E removed \in RemoveOutcomes(disk, file_path) :
          LET out == found.out
              wh == found.wh
          IN
            /\ result' = out
            /\ dims' = wh
            /\ probed' = IF InspectRaises(out) # "" \/ LowQuality(Ext(file_path), out, wh)
                         THEN probed
                         ELSE PutHash(probed, file_path, found)
            /\ IF InspectRaises(out) # ""
               THEN /\ pc' = "crashed"
                    /\ exc' = Raised("checkQuality", InspectRaises(out))
                    /\ UNCHANGED << disk, removed_files, founded_paths, idx >>
               ELSE IF ~LowQuality(Ext(file_path), out, wh)
               THEN /\ idx' = idx + 1
                    /\ UNCHANGED << pc, exc, disk, removed_files, founded_paths >>
               ELSE IF removed
               THEN /\ disk' = Unlink(disk, file_path)
                    /\ removed_files' = Append(removed_files, file_path)
                    /\ founded_paths' = RemoveFirst(founded_paths, file_path)
                    /\ idx' = idx + 1
                    /\ UNCHANGED << pc, exc >>
               ELSE \* os.remove raised, nothing catches it
                    /\ pc' = "crashed"
                    /\ exc' = Raised("checkQuality", "os.remove")
                    /\ UNCHANGED << disk, removed_files, founded_paths, idx >>
    \* the locals of convertTypes are gone once this call runs
    /\ converted_paths' = << >>
    /\ converted_count' = 0
    /\ conv_log' = << >>
    /\ UNCHANGED << envVars, valVars, snapshot, size, remove_failed, dupVars, orgVars >>

CheckQualityReturn ==
    /\ pc = "checkQuality"
    /\ idx > Len(snapshot)
    /\ pc' = "getImageHashes"
    /\ idx' = 1
    /\ result' = ""
    /\ dims' = NoDims
    /\ converted_paths' = << >>
    /\ converted_count' = 0
    /\ conv_log' = << >>
    /\ probed' = Empty
    /\ UNCHANGED << envVars, disk, exc, valVars, founded_paths, snapshot, size,
                    removed_files, remove_failed, dupVars, orgVars >>

\* ------------------------------------------------------------ getImageHashes
\* imagehash.phash(img): hash_size x hash_size booleans (ImageHash.hash)
hash_size == 8

\* the fingerprint whose first k bits (row by row) are set
Fingerprint(k) ==
    [r \in 1..hash_size |-> [c \in 1..hash_size |-> (r - 1) * hash_size + c <= k]]

\* the numbers of set bits of the fingerprints an image can get
Levels == {0, 3, 4, 8}
Fingerprints == {Fingerprint(k) : k \in Levels}

\* ImageHash.__sub__: the number of positions where the two hashes differ
Distance(h1, h2) ==
    Cardinality({rc \in (1..Len(h1)) \X (1..Len(h1)) :
                    h1[rc[1]][rc[2]] # h2[rc[1]][rc[2]]})

\* list(hashes.keys()): a new key goes last, an old key keeps its place
PutKey(ks, hs, path) == IF path \in DOMAIN hs THEN ks ELSE Append(ks, path)

GetImageHashesStep ==
    /\ pc = "getImageHashes"
    /\ idx <= Len(founded_paths)
    /\ LET path == founded_paths[idx]
       IN IF Ext(path) \notin image_exts
          THEN /\ idx' = idx + 1
               /\ UNCHANGED << pc, exc, hashes, paths >>
          ELSE \E opened \in IF Exists(disk, path) THEN BOOLEAN ELSE {FALSE} :
                 IF opened
                 THEN \E h \in Fingerprints :
                        /\ hashes' = PutHash(hashes, path, h)
                        /\ paths' = PutKey(paths, hashes, path)
                        /\ idx' = idx + 1
                        /\ UNCHANGED << pc, exc >>
                 ELSE \* Image.open raised, nothing catches it
                      /\ pc' = "crashed"
                      /\ exc' = Raised("getImageHashes", "Image.open")
                      /\ UNCHANGED << hashes, paths, idx >>
    \* the locals of checkQuality are gone once this call runs
    /\ snapshot' = << >>
    /\ removed_files' = << >>
    /\ UNCHANGED << envVars, disk, valVars, founded_paths, size, result,
                    dims, probed, remove_failed, convVars, seen, deleted,
                    i, j, orgVars >>

GetImageHashesReturn ==
    /\ pc = "getImageHashes"
    /\ idx > Len(founded_paths)
    /\ pc' = "removeDuplicateImages"
    /\ idx' = 1
    /\ seen' = {}
    /\ deleted' = {}
    /\ i' = 1
    /\ j' = 0
    /\ snapshot' = << >>
    /\ removed_files' = << >>
    /\ UNCHANGED << envVars, disk, exc, valVars, founded_paths, size,
                    result, dims, probed, remove_failed, convVars, hashes,
                    paths, orgVars >>

\* ------------------------------------------------------------ removeDuplicateImages
threshold == 95

\* the comparison with len(.hash) in place of len(.hash) ** 2
IsDuplicate_Linear(h1, h2, th) ==
    100 * (Len(h1) - Distance(h1, h2)) >= th * Len(h1)

\* similarity >= threshold, with
\*   similarity = (1 - distance / len(hashes[paths[i]].hash) ** 2) * 100
\* len(.hash) is the number of rows of the hash; the comparison is exact in
\* integers after multiplying by len ** 2.
IsDuplicate(h1, h2, th) ==
    LET distance == Distance(h1, h2)
        len == Len(h1)
    IN 100 * (len * len - distance) >= th * (len * len)

\* the outer loop without its `continue`
OuterSkip_Never(sn, p) == FALSE
\* `if paths[i] in seen: continue` of the outer loop
OuterSkip(sn, p) == p \in sn
\* the inner loop without its `continue`
InnerSkip_Never(sn, p) == FALSE
\* `if paths[j] in seen: continue` of the inner loop
InnerSkip(sn, p) == p \in sn
\* an inner loop over range(i + 2, len(paths))
InnerStart_PastNeighbour(k) == k + 2
\* range(i + 1, len(paths)) starts here
InnerStart(k) == k + 1

\* outer loop, entering iteration i
DedupOuter ==
    /\ pc = "removeDuplicateImages"
    /\ j = 0
    /\ i <= Len(paths)
    /\ IF OuterSkip(seen, paths[i])
       THEN i' = i + 1 /\ j' = 0
       ELSE i' = i /\ j' = InnerStart(i)
    /\ UNCHANGED << envVars, disk, pc, exc, valVars, founded_paths, snapshot, idx,
                    size, result, dims, probed, removed_files, remove_failed, convVars,
                    hashes, paths, seen, deleted, orgVars >>

\* inner loop, iteration j
DedupInner ==
    /\ pc = "removeDuplicateImages"
    /\ j # 0
    /\ j <= Len(paths)
    /\ \E removed \in RemoveOutcomes(disk, paths[j]) :
       IF InnerSkip(seen, paths[j])
       THEN /\ j' = j + 1
            /\ UNCHANGED << disk, pc, exc, seen, deleted >>
       ELSE IF ~IsDuplicate(hashes[paths[i]], hashes[paths[j]], threshold)
       THEN /\ j' = j + 1
            /\ UNCHANGED << disk, pc, exc, seen, deleted >>
       ELSE IF removed
       THEN /\ disk' = Unlink(disk, paths[j])
            /\ deleted' = deleted \cup {paths[j]}
            /\ seen' = seen \cup {paths[j]}
            /\ j' = j + 1
            /\ UNCHANGED << pc, exc >>
       ELSE \* os.remove raised, nothing catches it
            /\ pc' = "crashed"
            /\ exc' = Raised("removeDuplicateImages", "os.remove")
            /\ UNCHANGED << disk, seen, deleted, j >>
    /\ UNCHANGED << envVars, valVars, founded_paths, snapshot, idx, size, result,
                    dims, probed, removed_files, remove_failed, convVars, hashes, paths, i,
                    orgVars >>

\* the inner loop is over: seen.add(paths[i])
DedupInnerEnd ==
    /\ pc = "removeDuplicateImages"
    /\ j > Len(paths)
    /\ seen' = seen \cup {paths[i]}
    /\ i' = i + 1
    /\ j' = 0
    /\ UNCHANGED << envVars, disk, pc, exc, valVars, founded_paths, snapshot, idx,
                    size, result, dims, probed, removed_files, remove_failed, convVars,
                    hashes, paths, deleted, orgVars >>

DedupReturn ==
    /\ pc = "removeDuplicateImages"
    /\ j = 0
    /\ i > Len(paths)
    /\ founded_paths' = Without(founded_paths, deleted)
    /\ pc' = NextStage("removeDuplicateImages")
    /\ UNCHANGED << envVars, disk, exc, valVars, snapshot, idx, size, result, dims, probed,
                    removed_files, remove_failed, convVars, dupVars, orgVars >>

\* ------------------------------------------------------------ createFolders
months == << "January", "February", "March", "April", "May", "June",
             "July", "August", "September", "October", "November", "December" >>

\* the (year, month) a file's modification time can fall in
Dates == { [year |-> 2023, month |-> 3], [year |-> 2024, month |-> 3] }

\* A directory under Memories/: Photos, Photos/<year> or Photos/<year>/<month>
\* (and the same under Videos); year 0 and month "" stand for "none".
Dir(kind, year, month) == [kind |-> kind, year |-> year, month |-> month]

\* os.makedirs(photos_dir), os.makedirs(videos_dir)
RootDirs == { Dir("Photos", 0, ""), Dir("Videos", 0, "") }

\* directories made for every date there is, whatever the files' dates
DatedDirs_EveryDate(fd) ==
    UNION { { Dir(k, d.year, ""), Dir(k, d.year, months[d.month]) } :
            d \in Dates, k \in {"Photos", "Videos"} }

\* the year and month directories made for the dates of file_dates
DatedDirs(fd) ==
    UNION { { Dir(k, fd[p].year, ""), Dir(k, fd[p].year, months[fd[p].month]) } :
            p \in DOMAIN fd, k \in {"Photos", "Videos"} }

\* target_path: directory, file name (stem, "_<n>" when n > 0, extension)
Target(dir, p, n) == [dir |-> dir, stem |-> p.stem, n |-> n, ext |-> p.ext]

\* What Memories/ can hold from an earlier run: a.png and a_1.png in
\* Photos/2023/March. The run touches Memories/ in createFolders first
\* (os.makedirs(..., exist_ok=True)), so what was there is chosen there.
PriorTargets ==
    { Target(Dir("Photos", 2023, months[3]), P("x", "a", ".png"), n) : n \in {0, 1} }

\* The files of PriorTargets a copy of this run can meet, given the dates
\* fd of its records: os.path.exists is asked about no other target path.
MetTargets(fd) ==
    { t \in PriorTargets :
        \E p \in DOMAIN fd :
           /\ Ext(p) \in image_exts /\ p.stem = t.stem /\ p.ext = t.ext
           /\ fd[p].year = t.dir.year /\ months[fd[p].month] = t.dir.month }

\* the bytes of a file of an earlier run
Prior == P("Memories", "", "")
PriorTree(S) == [t \in S |-> Prior]
\* the directories the files S lie in
PriorDirs(S) ==
    UNION { { Dir(t.dir.kind, 0, ""), Dir(t.dir.kind, t.dir.year, ""), t.dir } : t \in S }

CreateFolders ==
    /\ pc = "createFolders"
    /\ IF \E k \in 1..Len(founded_paths) : ~Exists(disk, founded_paths[k])
       THEN \* os.stat raised, nothing catches it
            /\ target_dirs' = RootDirs
            /\ pc' = "crashed"
            /\ exc' = Raised("createFolders", "os.stat")
            /\ UNCHANGED << file_dates, target_files >>
       ELSE \E fd \in [Range(founded_paths) -> Dates] :
             \* Memories/ is new, or an earlier run left these files
             \E prior \in { {}, MetTargets(fd) } :
               /\ file_dates' = fd
               /\ target_files' = PriorTree(prior)
               /\ target_dirs' = PriorDirs(prior) \cup RootDirs \cup DatedDirs(fd)
               /\ pc' = NextStage("createFolders")
               /\ UNCHANGED exc
    /\ idx' = 1
    /\ hashes' = Empty
    /\ paths' = << >>
    /\ seen' = {}
    /\ deleted' = {}
    /\ i' = 1
    /\ j' = 0
    /\ UNCHANGED << envVars, disk, valVars, founded_paths, snapshot, size, result,
                    dims, probed, removed_files, remove_failed, convVars, moved_count >>

\* ------------------------------------------------------------ organizeMemories
\* a copy that goes to n without looking whether the path exists
FreeCounter_NoProbe(tf, dir, p, n) == n

\* the first of filename, name_1, name_2, ... that does not exist
RECURSIVE FreeCounter(_, _, _, _)
FreeCounter(tf, dir, p, n) ==
    IF Target(dir, p, n) \in DOMAIN tf THEN FreeCounter(tf, dir, p, n + 1) ELSE n

OrganizeStep ==
    /\ pc = "organizeMemories"
    /\ idx <= Len(founded_paths)
    /\ LET file_path == founded_paths[idx]
           file_date == file_dates[file_path]
           kind == IF Ext(file_path) \in image_exts THEN "Photos" ELSE "Videos"
           target_dir == Dir(kind, file_date.year, months[file_date.month])
           target_path == Target(target_dir, file_path,
                                 FreeCounter(target_files, target_dir, file_path, 0))
       IN \* shutil.copy2(file_path, target_path)
          /\ target_files' =
                [t \in DOMAIN target_files \cup {target_path} |->
                    IF t = target_path THEN disk[file_path].content
                    ELSE target_files[t]]
          /\ moved_count' = moved_count + 1
    /\ idx' = idx + 1
    /\ UNCHANGED << envVars, disk, pc, exc, valVars, founded_paths, snapshot, size,
                    result, dims, probed, removed_files, remove_failed, convVars, dupVars,
                    target_dirs, file_dates >>

OrganizeReturn ==
    /\ pc = "organizeMemories"
    /\ idx > Len(founded_paths)
    /\ pc' = NextStage("organizeMemories")
    /\ UNCHANGED << envVars, disk, exc, valVars, founded_paths, snapshot, idx, size,
                    result, dims, probed, removed_files, remove_failed, convVars, dupVars,
                    orgVars >>

Next ==
    \/ ValidateFiles
    \/ CollectFiles
    \/ RemoveLargeStep
    \/ RemoveLargeReturn
    \/ ConvertStep
    \/ ConvertReturn
    \/ CheckQualityStep
    \/ CheckQualityReturn
    \/ GetImageHashesStep
    \/ GetImageHashesReturn
    \/ DedupOuter
    \/ DedupInner
    \/ DedupInnerEnd
    \/ DedupReturn
    \/ CreateFolders
    \/ OrganizeStep
    \/ OrganizeReturn

Spec == Init /\ [][Next]_vars

\* ------------------------------------------------------------ claims
\* The state in which the named stage has just returned.
Returned(stage) ==
    CASE stage = "collectFiles" -> pc = "removeLargeFiles" /\ idx = 1
      [] stage = "removeLargeFiles" -> pc = "convertTypes" /\ idx = 1
      [] stage = "convertTypes" -> pc = "checkQuality" /\ idx = 1
      [] stage = "checkQuality" -> pc = "getImageHashes" /\ idx = 1
      [] stage = "removeDuplicateImages" -> pc = "createFolders"

FilterStages == {"removeLargeFiles", "convertTypes", "checkQuality", "removeDuplicateImages"}

\* C1: whenever removeLargeFiles, convertTypes, checkQuality or
\* removeDuplicateImages returns, every path in founded_paths is a file
\* that exists on disk.
C1_Existence ==
    (\E s \in FilterStages : Returned(s)) =>
        \A k \in 1..Len(founded_paths) : Exists(disk, founded_paths[k])

\* C2: after collectFiles and after every later stage, founded_paths holds
\* no path twice.
C2_UniquePaths ==
    (\E s \in FilterStages \cup {"collectFiles"} : Returned(s)) =>
        \A a, b \in 1..Len(founded_paths) :
            a # b => founded_paths[a] # founded_paths[b]

\* C3: a rejected record whose delete failed is not in founded_paths when
\* removeLargeFiles returns, and a delete that fails in checkQuality or
\* removeDuplicateImages does not stop the stage.
C3_FailOpenDeletion ==
    /\ Returned("removeLargeFiles") => remove_failed \cap Range(founded_paths) = {}
    /\ exc.op # "os.remove"

\* C4: once validateFiles has returned True, no per-record failure ends
\* the run.
C4_ErrorsAreLocal == pc # "crashed"

\* C5: from a root that is missing, is no directory or holds no file with
\* an image or video extension, validateFiles reports an error and the run
\* halts with the disk and the target tree untouched.
C5_FatalNoSideEffects ==
    [][ (pc = "validateFiles" /\ (root # "dir" \/ Eligible(disk) = {})) =>
           /\ pc' = "halted"
           /\ Len(errors') = Len(errors) + 1
           /\ disk' = disk
           /\ target_dirs' = target_dirs
           /\ target_files' = target_files ]_vars

\* C6: when convertTypes has returned, every record whose conversion failed
\* is at its position with its original path, its file is on disk with its
\* bytes unmodified, and converted_count counts only the converted records.
C6_PassThrough ==
    Returned("convertTypes") =>
        /\ Len(founded_paths) = Len(conv_log)
        /\ \A k \in 1..Len(conv_log) :
              conv_log[k].res \in ConvertFailures =>
                 /\ founded_paths[k] = conv_log[k].src
                 /\ conv_log[k].src \in DOMAIN disk
                 /\ Exists(disk, conv_log[k].src) =>
                        disk[conv_log[k].src].content = conv_log[k].src
        /\ converted_count =
              Cardinality({k \in 1..Len(conv_log) : conv_log[k].res = "converted"})

C6_Witness ==
    /\ Returned("convertTypes")
    /\ \E a, b \in 1..Len(conv_log) :
          /\ conv_log[a].res \in {"timeout", "save_failed"}
          /\ conv_log[b].res = "converted"
          /\ Exists(disk, conv_log[a].src)

\* the hashed images that are in founded_paths
Survivors == DOMAIN hashes \cap Range(founded_paths)

\* C7: when removeDuplicateImages has returned, no two surviving hashed
\* images are similar at or above the threshold, and a hashed image
\* survives whenever an image was hashed.
C7_OneRepresentative ==
    Returned("removeDuplicateImages") =>
        /\ \A p, q \in Survivors :
              p # q => ~IsDuplicate(hashes[p], hashes[q], threshold)
        /\ paths # << >> => \E p \in Survivors : Exists(disk, p)

C7_Witness ==
    /\ Returned("removeDuplicateImages")
    /\ Len(paths) = 3
    /\ Cardinality(deleted) = 1
    /\ Cardinality(Survivors) = 2

\* A, B, C in collection order with A~B, B~C and A, C below the threshold
NonTransitive ==
    /\ Len(paths) = 3
    /\ IsDuplicate(hashes[paths[1]], hashes[paths[2]], threshold)
    /\ IsDuplicate(hashes[paths[2]], hashes[paths[3]], threshold)
    /\ ~IsDuplicate(hashes[paths[1]], hashes[paths[3]], threshold)

\* C8: for three hashed images A, B, C in collection order with A~B, B~C
\* and A, C below the threshold, removeDuplicateImages deletes B only and
\* returns with A and C in founded_paths and on disk.
C8_NonTransitive ==
    (Returned("removeDuplicateImages") /\ NonTransitive) =>
        /\ deleted = {paths[2]}
        /\ paths[2] \notin DOMAIN disk
        /\ paths[2] \notin Range(founded_paths)
        /\ {paths[1], paths[3]} \subseteq Range(founded_paths)
        /\ Exists(disk, paths[1]) /\ Exists(disk, paths[3])

C8_Witness == Returned("removeDuplicateImages") /\ NonTransitive

\* the number of bits of a fingerprint
BitLength == hash_size * hash_size

\* the inner loop is about to compare paths[i] with paths[j]
Comparing ==
    /\ pc = "removeDuplicateImages"
    /\ j # 0
    /\ j <= Len(paths)
    /\ paths[j] \notin seen

\* paths[j] is deleted by the step (os.remove is called on it)
DeletesJ == paths[j] \in deleted' \/ exc' = Raised("removeDuplicateImages", "os.remove")

C10_HashFailureKeeps == exc # Raised("getImageHashes", "Image.open")

\* removeLargeFiles is about to examine snapshot[idx]; after the step size
\* is what os.path.getsize gave for it
SizeStep == pc = "removeLargeFiles" /\ idx <= Len(snapshot)

\* the ceiling of the record's own kind
Ceiling(p) == IF Ext(p) \in image_exts THEN max_image_bytes ELSE max_video_bytes

\* C11: in removeLargeFiles a record whose size is at most the ceiling of
\* its own kind (image or video) keeps its file and its place in
\* founded_paths, and a record one byte over that ceiling is deleted from
\* disk and dropped from founded_paths.
C11_SizeBoundary ==
    [][ (SizeStep /\ size' # None) =>
          LET p == snapshot[idx]
          IN IF size' <= Ceiling(p)
             THEN /\ Exists(disk', p)
                  /\ disk'[p] = disk[p]
                  /\ founded_paths' = founded_paths
             ELSE /\ p \notin DOMAIN disk'
                  /\ p \notin Range(founded_paths') ]_vars

\* C12: in removeLargeFiles a record whose size cannot be read is not in
\* founded_paths any more, whatever its kind and whatever os.remove did.
C12_UnreadableSize ==
    [][ (SizeStep /\ size' = None) => snapshot[idx] \notin Range(founded_paths') ]_vars

\* checkQuality is about to examine snapshot[idx]; after the step result and
\* dims are what the inspection gave for it
QualityStep == pc = "checkQuality" /\ idx <= Len(snapshot)

\* the configured minimum of the record's kind
MinSize(p) == IF Ext(p) \in image_exts THEN min_image_size ELSE min_video_size

\* C13: in checkQuality a record whose width and height were read is
\* rejected exactly when width < minWidth or height < minHeight: a record
\* at the minimum keeps its file and its place, a record one pixel under
\* in either axis is deleted from disk and dropped from founded_paths.
C13_QualityBoundary ==
    [][ (QualityStep /\ result' = "sized") =>
          LET p == snapshot[idx]
          IN IF dims'[1] < MinSize(p)[1] \/ dims'[2] < MinSize(p)[2]
             THEN /\ p \notin DOMAIN disk'
                  /\ Len(founded_paths') = Len(founded_paths) - 1
                  /\ Without(founded_paths', {p}) = Without(founded_paths, {p})
             ELSE /\ Exists(disk', p)
                  /\ disk'[p] = disk[p]
                  /\ founded_paths' = founded_paths ]_vars

\* organizeMemories is about to copy founded_paths[idx]
CopyStep == pc = "organizeMemories" /\ idx <= Len(founded_paths)

\* C14: every copy of organizeMemories goes to a target path that did not
\* exist, the first free one of name, name_1, name_2, ...; the files the
\* target tree held (from an earlier run or an earlier copy) keep their
\* bytes, the tree grows by one file per record, and the source tree is as
\* it was.
C14_NeverOverwrites ==
    [][ /\ CopyStep =>
             LET p == founded_paths[idx]
                 new == DOMAIN target_files' \ DOMAIN target_files
             IN /\ Cardinality(new) = 1
                /\ \A t \in DOMAIN target_files : target_files'[t] = target_files[t]
                /\ \A t \in new :
                      /\ target_files'[t] = disk[p].content
                      /\ t.stem = p.stem /\ t.ext = p.ext
                      /\ \A m \in 0..(t.n - 1) :
                            [t EXCEPT !.n = m] \in DOMAIN target_files
                /\ disk' = disk
        /\ pc' = "done" => moved_count' = Len(founded_paths') ]_vars

\* a.png and a_1.png were there, the copy went to a_2.png
C14_Witness ==
    /\ pc = "done"
    /\ \E t \in DOMAIN target_files :
          /\ t.n = 2
          /\ target_files[t] # Prior
          /\ target_files[[t EXCEPT !.n = 0]] = Prior

\* the files whose extension is neither an image nor a video extension
Ignored == {p \in Universe : Ext(p) \notin valid_exts}

\* C15: no step of the run puts an ignored file in founded_paths, removes
\* it or changes its bytes, or copies its bytes to another file of the
\* source tree or of the target tree.
C15_IgnoredUntouched ==
    [][ \A p \in Ignored :
          /\ p \notin Range(founded_paths')
          /\ p \in DOMAIN disk => (p \in DOMAIN disk' /\ disk'[p] = disk[p])
          /\ \A q \in DOMAIN disk' \ {p} : disk'[q].content # p
          /\ \A t \in DOMAIN target_files' : target_files'[t] # p ]_vars

\* the run is over, it converted a file and copied it, the ignored file
\* is there
C15_Witness ==
    /\ pc = "done"
    /\ \E p \in Ignored : Exists(disk, p)
    /\ \E t \in DOMAIN target_files :
          target_files[t] # Prior /\ target_files[t].ext # t.ext

\* C16: no file validateFiles judged corrupt is in founded_paths when
\* collectFiles has returned, also when its delete failed.
C16_CorruptDropped ==
    Returned("collectFiles") => corrupted_files \cap Range(founded_paths) = {}

\* a is b with some elements left out, the others in their order
RECURSIVE IsSubSeq(_, _)
IsSubSeq(a, b) ==
    IF a = << >> THEN TRUE
    ELSE IF b = << >> THEN FALSE
    ELSE IF Head(a) = Head(b) THEN IsSubSeq(Tail(a), Tail(b))
    ELSE IsSubSeq(a, Tail(b))

\* founded_paths is the stage's input (snapshot) less the records the stage
\* removed, in the input's order
StableOverSnapshot ==
    /\ IsSubSeq(founded_paths, snapshot)
    /\ Len(snapshot) - Len(founded_paths) = Len(removed_files)
    /\ Range(snapshot) \ Range(founded_paths) \subseteq Range(removed_files)

\* C17: what removeLargeFiles, checkQuality and removeDuplicateImages
\* return is their input less the records they rejected, in the input's
\* order; what convertTypes returns has one record per input record, at
\* its position, with its path or its path rewritten to the new extension.
C17_StableFiltering ==
    [][ /\ (Returned("removeLargeFiles") \/ Returned("checkQuality"))' =>
              StableOverSnapshot'
        /\ Returned("convertTypes")' =>
              (/\ Len(founded_paths) = Len(conv_log)
               /\ \A k \in 1..Len(conv_log) :
                     founded_paths[k] \in
                        {conv_log[k].src, ConvertTarget(conv_log[k].src)})'
        /\ (pc = "removeDuplicateImages" /\ pc' = "createFolders") =>
              /\ IsSubSeq(founded_paths', founded_paths)
              /\ Len(founded_paths) - Len(founded_paths') =
                    Cardinality({k \in 1..Len(founded_paths) :
                                    founded_paths[k] \in deleted}) ]_vars

\* checkQuality returned three records less the middle one
C17_Witness ==
    /\ Returned("checkQuality")
    /\ Len(snapshot) = 3
    /\ founded_paths = << snapshot[1], snapshot[3] >>

\* C18: createFolders reads a date for every record of founded_paths and
\* makes Photos/<year>/<Month> and Videos/<year>/<Month> for each of these
\* dates; every year or month directory it makes is the directory of the
\* date of a record; organizeMemories copies every record into the month
\* directory of its kind and date, which exists.
C18_ChronologicalDirs ==
    [][ /\ pc = "createFolders" =>
             /\ DOMAIN file_dates' = Range(founded_paths)
             /\ \A p \in DOMAIN file_dates' : \A k \in {"Photos", "Videos"} :
                   Dir(k, file_dates'[p].year, months[file_dates'[p].month])
                      \in target_dirs'
             /\ \A dir \in target_dirs' \ PriorDirs(DOMAIN target_files') :
                   dir.year # 0 =>
                      \E p \in DOMAIN file_dates' :
                         /\ dir.year = file_dates'[p].year
                         /\ dir.month \in {"", months[file_dates'[p].month]}
        /\ CopyStep =>
             LET p == founded_paths[idx]
                 kind == IF Ext(p) \in image_exts THEN "Photos" ELSE "Videos"
             IN \A t \in DOMAIN target_files' \ DOMAIN target_files :
                   /\ t.dir = Dir(kind, file_dates[p].year, months[file_dates[p].month])
                   /\ t.dir \in target_dirs ]_vars

\* an image of 2023 and a video of 2024 were copied
C18_Witness ==
    /\ pc = "done"
    /\ \E t, u \in DOMAIN target_files :
          /\ target_files[t] # Prior /\ target_files[u] # Prior
          /\ t.dir.kind = "Photos" /\ t.dir.year = 2023
          /\ u.dir.kind = "Videos" /\ u.dir.year = 2024
    /\ Dir("Videos", 2023, months[3]) \in target_dirs

\* the step calls os.remove(paths[j])
RemoveCalled ==
    deleted' # deleted \/ exc' = Raised("removeDuplicateImages", "os.remove")

\* C19: in removeDuplicateImages a deleted image is never taken as the
\* representative i and os.remove is never called on it again, an image
\* kept as representative is never deleted later, and when the stage
\* returns every deleted image is similar at or above the threshold to an
\* image before it in paths that survived; the first hashed image survives.
C19_ResolutionPermanent ==
    [][ pc = "removeDuplicateImages" =>
          /\ (j = 0 /\ j' # 0) => paths[i] \notin deleted
          /\ RemoveCalled =>
                /\ paths[j] \notin deleted /\ paths[j] \notin seen
                /\ paths[i] \notin deleted
                /\ i < j
          /\ deleted \subseteq deleted'
          /\ \A p \in seen \ deleted : p \notin deleted'
          /\ pc' = "createFolders" =>
                /\ \A b \in 1..Len(paths) :
                      paths[b] \in deleted =>
                         \E a \in 1..(b - 1) :
                            /\ paths[a] \notin deleted
                            /\ IsDuplicate(hashes[paths[a]], hashes[paths[b]], threshold)
                /\ paths # << >> => paths[1] \notin deleted ]_vars

\* the third image was deleted for the first; the second, which is similar
\* to the third and not to the first, was kept
C19_Witness ==
    /\ Returned("removeDuplicateImages")
    /\ Len(paths) = 3
    /\ deleted = {paths[3]}
    /\ IsDuplicate(hashes[paths[2]], hashes[paths[3]], threshold)
    /\ ~IsDuplicate(hashes[paths[1]], hashes[paths[2]], threshold)

\* the step of convertTypes converted founded_paths[idx]
Converts == pc = "convertTypes" /\ converted_count' = converted_count + 1

\* C20: a conversion that succeeds writes to a path that is not the path of
\* another record of founded_paths and not a path an earlier conversion of
\* the run produced, and leaves the files of the other records as they were.
C20_OthersIntact ==
    [][ Converts =>
          LET p == founded_paths[idx]
              new_path == ConvertTarget(p)
          IN /\ new_path \notin Range(founded_paths) \ {p}
             /\ new_path \notin Range(converted_paths)
             /\ \A q \in Range(founded_paths) \ {p} :
                   q \in DOMAIN disk => (q \in DOMAIN disk' /\ disk'[q] = disk[q]) ]_vars
====
